---- MODULE Spec2Model ----
(***************************************************************************)
(* State persistence and backup/restore of the scheduling application:     *)
(* backend/app/state_manager.py (StateManager), driven by the request      *)
(* handlers of backend/app/main.py, on documents of backend/app/schemas.py.*)
(*                                                                         *)
(* The disk is modelled as the current-document file data/state.json and   *)
(* the directory data/backups, one file per second of wall-clock time.     *)
(* A timestamp is a count of clock ticks; strftime('%Y%m%d_%H%M%S')        *)
(* truncates it to its second, isoformat() keeps all of it.                *)
(***************************************************************************)
EXTENDS Integers, Sequences, FiniteSets, TLC

VARIABLES
    stateFile,    \* the content of data/state.json
    backupFiles,  \* the content of data/backups: file of each second
    loaded,       \* the catalog of the document the client last got
    snapAt,       \* history: the business fields snapshotted at each timestamp
    last,         \* history: the last request, what it found and its response
    procs,        \* the requests in flight, by worker, when requests overlap
    requests      \* the number of saves and restores the server will still accept

vars == <<stateFile, backupFiles, loaded, snapAt, last, procs, requests>>

(***************************************************************************)
(* Bounds of the model.                                                    *)
(***************************************************************************)
\* The readings of the wall clock are the ticks 0..MaxTime.
MaxTime == 2
\* Ticks per second: the sub-second resolution of datetime.now(), scaled.
TicksPerSec == 2
\* The saves and restores the server accepts over a whole behaviour.
MaxRequests == 3
\* The same, when their steps interleave.
MaxOverlap == 2

\* schemas.py: SCHEMA_VERSION = 1
SCHEMA_VERSION == 1

Times == 0..MaxTime

(***************************************************************************)
(* Timestamps: the two renderings _create_backup makes of one datetime.    *)
(***************************************************************************)
\* timestamp.strftime('%Y%m%d_%H%M%S'): the timestamp truncated to the second.
StrfSecond(t) == t \div TicksPerSec

\* timestamp.isoformat(): the full timestamp, sub-second part included.
IsoFormat(t) == t

\* f"bkp_{...}": the backup id, one per second.
BackupId(t) == StrfSecond(t)

\* data/backups/state_<second>.json relative to the parent of data/: the
\* snapshot file, one per second.
BackupPath(t) == StrfSecond(t)

Seconds == {StrfSecond(t) : t \in Times}

\* An id no snapshot creation within the clock's range produces.
UnknownId == StrfSecond(MaxTime) + 1

(***************************************************************************)
(* Documents (schemas.py).                                                 *)
(***************************************************************************)
\* BackupInfo(id, created_at_iso, reason="manual_save", file_path)
BackupInfo(id, created, path) ==
    [id |-> id, created_at_iso |-> created, reason |-> "manual_save", file_path |-> path]

\* AppState with every field at its default.
DefaultAppState ==
    [schema_version |-> SCHEMA_VERSION,
     app            |-> "system",
     ui_state       |-> "empty",
     projects       |-> {},
     tasks          |-> {},
     backups        |-> <<>>]

\* The business fields of a document: projects, tasks, settings.
Business(d) == [projects |-> d.projects, tasks |-> d.tasks, app |-> d.app]

\* The business contents a client submits: the empty document, and a project
\* "p1" with a task "t1" under a changed theme.
BizInputs ==
    { [projects |-> {},     tasks |-> {},     app |-> "system"],
      [projects |-> {"p1"}, tasks |-> {"t1"}, app |-> "dark"] }

\* A request body: business content b with the catalog c.
Document(b, c) ==
    [schema_version |-> SCHEMA_VERSION,
     app            |-> b.app,
     ui_state       |-> "empty",
     projects       |-> b.projects,
     tasks          |-> b.tasks,
     backups        |-> c]

Range(s) == {s[i] : i \in DOMAIN s}

IsPrefix(s, t) == Len(s) <= Len(t) /\ \A i \in DOMAIN s : s[i] = t[i]

\* A document with its embedded catalog left out of the comparison.
WithoutCatalog(d) == [d EXCEPT !.backups = <<>>]

(***************************************************************************)
(* Files.  A file is absent, holds text that does not load as an AppState, *)
(* or holds the JSON dump of a document.                                   *)
(***************************************************************************)
Absent  == [kind |-> "absent"]
Corrupt == [kind |-> "corrupt"]

\* Variant: the dump leaves the tasks out of the text.
JsonDumpExcludingTasks(d) == [kind |-> "json", doc |-> [d EXCEPT !.tasks = {}]]

\* state.model_dump(mode="json") followed by json.dump: the file's text.
JsonDump(d) == [kind |-> "json", doc |-> d]

\* json.load followed by AppState.model_validate.
Loads(f) == f.kind = "json"
ModelValidate(f) == f.doc

\* StateManager._get_default_state
GetDefaultState == DefaultAppState

\* StateManager.load_state on the file f
LoadStateFrom(f) ==
    IF f.kind = "absent" THEN GetDefaultState
    ELSE IF Loads(f) THEN ModelValidate(f)
    ELSE GetDefaultState

LoadState == LoadStateFrom(stateFile)

\* StateManager.get_backups
GetBackupsOf(f) == LoadStateFrom(f).backups

(***************************************************************************)
(* StateManager._create_backup(state, timestamp): the document with its    *)
(* catalog as the call leaves it, and the backup directory after the write.*)
(***************************************************************************)
\* Variant: the record's file path is formatted from a second reading of the
\* clock, which falls in the next second.
NewBackupInfoLaterPath(t) ==
    BackupInfo(BackupId(t), IsoFormat(t),
               IF t + TicksPerSec \in Times THEN BackupPath(t + TicksPerSec)
               ELSE BackupPath(t))

NewBackupInfo(t) == BackupInfo(BackupId(t), IsoFormat(t), BackupPath(t))

\* Variant: the record is appended without the membership test.
CatalogAlwaysAppend(cat, t) == Append(cat, NewBackupInfo(t))

\* Variant: the record is inserted at the front of the catalog.
CatalogInsertFront(cat, t) ==
    IF NewBackupInfo(t) \in Range(cat) THEN cat ELSE <<NewBackupInfo(t)>> \o cat

\* `if backup_info not in state.backups: state.backups.append(backup_info)`
CatalogAfterBackup(cat, t) ==
    IF NewBackupInfo(t) \in Range(cat) THEN cat ELSE Append(cat, NewBackupInfo(t))

StateAfterBackup(state, t) ==
    [state EXCEPT !.backups = CatalogAfterBackup(state.backups, t)]

\* Variant: the snapshot file is opened for exclusive creation, so that a
\* file already there keeps its content.
FilesAfterBackupKeepExisting(files, state, t) ==
    IF files[BackupPath(t)].kind = "absent"
    THEN [files EXCEPT ![BackupPath(t)] = JsonDump(StateAfterBackup(state, t))]
    ELSE files

\* Variant: the dump made before the record was appended is the one written.
FilesAfterBackupStaleDump(files, state, t) ==
    [files EXCEPT ![BackupPath(t)] = JsonDump(state)]

\* `with open(backup_path, "w") ...: json.dump(state_dict, ...)`
FilesAfterBackup(files, state, t) ==
    [files EXCEPT ![BackupPath(t)] = JsonDump(StateAfterBackup(state, t))]

(***************************************************************************)
(* Initial state: the directories exist, no snapshot has been taken; the   *)
(* document file is absent or holds text left there that does not load.    *)
(***************************************************************************)
NoResponse == [op |-> "none"]

\* The workers that serve requests on the one data directory.
Procs == {"w1", "w2"}

Idle == [op |-> "idle", pc |-> "idle"]

InitStore ==
    /\ procs = [p \in Procs |-> Idle]
    /\ stateFile \in {Absent, Corrupt}
    /\ backupFiles = [s \in Seconds |-> Absent]
    /\ loaded = <<>>
    /\ snapAt = [t \in Times |-> {}]
    /\ last = NoResponse

Init == InitStore /\ requests = MaxRequests

\* One more save or restore is accepted.
Accept ==
    /\ requests > 0
    /\ requests' = requests - 1

\* datetime.now(): local wall-clock time.  A reading may equal an earlier one
\* or precede it (an adjusted clock, the end of daylight saving time).
Now(t) == t \in Times

\* Variant: a load that finds the file unreadable writes the default back.
GetStateRepairsFile ==
    /\ loaded' = LoadState.backups
    /\ last' = [op |-> "load", result |-> LoadState]
    /\ stateFile' = IF stateFile.kind = "corrupt" THEN JsonDump(LoadState) ELSE stateFile
    /\ UNCHANGED <<backupFiles, snapAt, procs, requests>>

(***************************************************************************)
(* GET /api/state                                                          *)
(***************************************************************************)
GetState ==
    /\ loaded' = LoadState.backups
    /\ last' = [op |-> "load", result |-> LoadState]
    /\ UNCHANGED <<stateFile, backupFiles, snapAt, procs, requests>>

(***************************************************************************)
(* GET /api/state/backups                                                  *)
(***************************************************************************)
GetBackups ==
    /\ last' = [op |-> "list", result |-> GetBackupsOf(stateFile)]
    /\ UNCHANGED <<stateFile, backupFiles, loaded, snapAt, procs, requests>>

(***************************************************************************)
(* PUT /api/state: StateManager.save_state(state, create_backup=True).     *)
(* The body is any document: business content of the client's choice with  *)
(* the catalog the client last loaded, an empty catalog, or a catalog      *)
(* holding one record brought from another store.                          *)
(***************************************************************************)
ForeignBackupInfo == NewBackupInfo(0)

CatalogInputs == {loaded, <<>>, <<ForeignBackupInfo>>}

\* Variant: state_dict is dumped before _create_backup appended the record.
StateFileDumpedBeforeBackup(state, t) == JsonDump(state)

\* The document file after `json.dump(state_dict, f)`: the submitted state
\* with the catalog _create_backup left in it.
StateFileAfterSave(state, t) == JsonDump(StateAfterBackup(state, t))

\* Variant: the snapshot is taken of the document loaded from the store, and
\* the submitted document is saved under the catalog that snapshot produced.
SaveStateSnapshotsStored(state, t) ==
    /\ Accept
    /\ Now(t)
    /\ backupFiles' = FilesAfterBackup(backupFiles, LoadState, t)
    /\ stateFile' = JsonDump([state EXCEPT !.backups =
                                 CatalogAfterBackup(LoadState.backups, t)])
    /\ snapAt' = [snapAt EXCEPT ![t] = {Business(LoadState)}]
    /\ last' = [op |-> "save", before |-> LoadState, arg |-> state, now |-> t,
                saved_at_iso |-> IsoFormat(t), backup_id |-> BackupId(t)]
    /\ UNCHANGED <<loaded, procs>>

SaveState(state, t) ==
    /\ Accept
    /\ Now(t)
    /\ backupFiles' = FilesAfterBackup(backupFiles, state, t)
    /\ stateFile' = StateFileAfterSave(state, t)
    /\ snapAt' = [snapAt EXCEPT ![t] = {Business(state)}]
    /\ last' = [op |-> "save", before |-> LoadState, arg |-> state, now |-> t,
                saved_at_iso |-> IsoFormat(t), backup_id |-> BackupId(t)]
    /\ UNCHANGED <<loaded, procs>>

PutState ==
    \E b \in BizInputs, c \in CatalogInputs, t \in Times :
        SaveState(Document(b, c), t)

(***************************************************************************)
(* POST /api/state/backups/{backup_id}/restore:                            *)
(* StateManager.restore_backup(backup_id).                                 *)
(***************************************************************************)
\* `for backup in current_state.backups: if backup.id == backup_id: ... break`
\* the index of the first record with the id, 0 when there is none.
FindBackup(cat, id) ==
    IF \E i \in DOMAIN cat : cat[i].id = id
    THEN CHOOSE i \in DOMAIN cat :
            /\ cat[i].id = id
            /\ \A j \in DOMAIN cat : cat[j].id = id => i <= j
    ELSE 0

\* Variant: the safety snapshot is taken before the lookup.
RestoreUnknownIdAfterSnapshot(id) ==
    /\ FindBackup(LoadState.backups, id) = 0
    /\ \E t \in Times :
          /\ Now(t)
          /\ backupFiles' = FilesAfterBackup(backupFiles, LoadState, t)
          /\ snapAt' = [snapAt EXCEPT ![t] = {Business(LoadState)}]
    /\ last' = [op |-> "restore", id |-> id, status |-> "not_found",
                cause |-> "no_record"]
    /\ UNCHANGED <<stateFile, loaded, procs, requests>>

\* `raise ValueError("Backup not found")`, mapped to HTTP 404.
RestoreUnknownId(id) ==
    /\ FindBackup(LoadState.backups, id) = 0
    /\ last' = [op |-> "restore", id |-> id, status |-> "not_found",
                cause |-> "no_record"]
    /\ UNCHANGED <<stateFile, backupFiles, loaded, snapAt, procs, requests>>

\* Variant: the safety snapshot is taken before the file is looked for.
RestoreMissingFileAfterSnapshot(id) ==
    LET cat == LoadState.backups
        i   == FindBackup(cat, id)
    IN  /\ i # 0
        /\ backupFiles[cat[i].file_path] = Absent
        /\ \E t \in Times :
              /\ Now(t)
              /\ backupFiles' = FilesAfterBackup(backupFiles, LoadState, t)
              /\ snapAt' = [snapAt EXCEPT ![t] = {Business(LoadState)}]
        /\ last' = [op |-> "restore", id |-> id, status |-> "not_found",
                    cause |-> "no_file"]
        /\ UNCHANGED <<stateFile, loaded, procs, requests>>

\* `raise ValueError("Backup file not found")`, mapped to HTTP 404.
RestoreMissingFile(id) ==
    LET cat == LoadState.backups
        i   == FindBackup(cat, id)
    IN  /\ i # 0
        /\ backupFiles[cat[i].file_path] = Absent
        /\ last' = [op |-> "restore", id |-> id, status |-> "not_found",
                    cause |-> "no_file"]
        /\ UNCHANGED <<stateFile, backupFiles, loaded, snapAt, procs, requests>>

\* Variant: the restored document keeps the catalog of the snapshot file.
RestoredStateKeepsOwnCatalog(files, path, current) == ModelValidate(files[path])

\* The restored document: the target file, read after the safety snapshot
\* was written, with its catalog replaced by the current document's.
RestoredState(files, path, current) ==
    [ModelValidate(files[path]) EXCEPT !.backups = current.backups]

RestoreFound(id, t) ==
    LET current_state == LoadState
        cat           == current_state.backups
        i             == FindBackup(cat, id)
        backup_info   == cat[i]
        after         == StateAfterBackup(current_state, t)
        files         == FilesAfterBackup(backupFiles, current_state, t)
        restored      == RestoredState(files, backup_info.file_path, after)
    IN  /\ i # 0
        /\ backupFiles[backup_info.file_path] # Absent
        /\ Now(t)
        /\ Accept
        /\ backupFiles' = files
        /\ stateFile' = JsonDump(restored)
        /\ snapAt' = [snapAt EXCEPT ![t] = {Business(current_state)}]
        /\ last' = [op |-> "restore", id |-> id, status |-> "ok", now |-> t,
                    target |-> backup_info, current |-> current_state,
                    restored_at_iso |-> IsoFormat(t), result |-> restored]
        /\ UNCHANGED <<loaded, procs>>

RestoreIds == Seconds \cup {UnknownId}

RestoreBackup ==
    \E id \in RestoreIds :
        \/ RestoreUnknownId(id)
        \/ RestoreMissingFile(id)
        \/ \E t \in Times : RestoreFound(id, t)

Next ==
    \/ GetState
    \/ GetBackups
    \/ PutState
    \/ RestoreBackup

Spec == Init /\ [][Next]_vars

(***************************************************************************)
(* Properties of restore.                                                  *)
(***************************************************************************)
RestoreSucceeded == last.op = "restore" /\ last.status = "ok"

\* The catalog list_snapshots() reads from the document file now.
PersistedCatalog == GetBackupsOf(stateFile)

\* C1: after every successful restore(id), the document persisted and
\* returned has the business fields (projects, tasks, settings) that the
\* target snapshot held when it was created, operations within one
\* wall-clock second included.
C1_RestoreYieldsSnapshotContent ==
    (RestoreSucceeded /\ snapAt[last.target.created_at_iso] # {})
        => /\ snapAt[last.target.created_at_iso] = {Business(last.result)}
           /\ stateFile = JsonDump(last.result)

\* C2 as stated: every successful restore leaves the persisted catalog with
\* exactly one more record than the current document's catalog had at call
\* time.
C2_RestoreAddsExactlyOne ==
    RestoreSucceeded => Len(PersistedCatalog) = Len(last.current.backups) + 1

\* C2 as amended: a successful restore appends the safety record of its
\* timestamp, and nothing else, when no identical record (same id, creation
\* time, reason and file path) is in the current catalog at call time, and
\* appends nothing when one is.
C2_RestoreAddsSafetyRecordUnlessPresent ==
    RestoreSucceeded =>
        LET before == last.current.backups
            safety == [id |-> BackupId(last.now), created_at_iso |-> IsoFormat(last.now),
                       reason |-> "manual_save", file_path |-> BackupPath(last.now)]
        IN  IF safety \in Range(before)
            THEN PersistedCatalog = before
            ELSE PersistedCatalog = before \o <<safety>>

\* A restore at a timestamp whose safety record the catalog already held.
C2_Witness ==
    /\ RestoreSucceeded
    /\ NewBackupInfo(last.now) \in Range(last.current.backups)
    /\ Len(PersistedCatalog) = Len(last.current.backups)

\* C3: a successful restore never reverts the catalog: the catalog at call
\* time is kept, record by record and in order, at the front of the
\* persisted catalog, and what follows it is at most the safety record, so
\* that the catalog embedded in the snapshot file has no part in the result.
C3_RestoreKeepsCatalog ==
    RestoreSucceeded =>
        /\ IsPrefix(last.current.backups, PersistedCatalog)
        /\ Len(PersistedCatalog) <= Len(last.current.backups) + 1
        /\ \A i \in DOMAIN PersistedCatalog :
              i > Len(last.current.backups)
                  => PersistedCatalog[i].created_at_iso = IsoFormat(last.now)

\* A restore from a snapshot file whose embedded catalog is not the catalog
\* the document ends with, and does not even begin it.
C3_Witness ==
    /\ RestoreSucceeded
    /\ Len(last.current.backups) >= 2
    /\ ~IsPrefix(backupFiles[last.target.file_path].doc.backups, PersistedCatalog)

\* C4: restore(id) with an id that matches no record of the current
\* document's catalog fails with NotFound and changes neither the document
\* file nor any snapshot file.
C4_UnknownIdNoEffect ==
    [][ ( /\ last'.op = "restore"
          /\ \A i \in DOMAIN PersistedCatalog : PersistedCatalog[i].id # last'.id )
        => ( /\ last'.status = "not_found"
             /\ stateFile' = stateFile
             /\ backupFiles' = backupFiles ) ]_vars

\* A failed restore of an id that a catalog of two records does not hold.
C4_Witness ==
    /\ last.op = "restore"
    /\ last.status = "not_found"
    /\ last.cause = "no_record"
    /\ Len(PersistedCatalog) >= 2
    /\ \E s \in Seconds : backupFiles[s] # Absent

\* C5: restore(id) with an id that is in the current catalog while the file
\* its first record references is missing fails with NotFound before any
\* write: no snapshot file is created and the document file is unchanged.
C5_MissingFileNoEffect ==
    [][ ( /\ last'.op = "restore"
          /\ \E i \in DOMAIN PersistedCatalog :
                /\ PersistedCatalog[i].id = last'.id
                /\ \A j \in 1..(i - 1) : PersistedCatalog[j].id # last'.id
                /\ backupFiles[PersistedCatalog[i].file_path] = Absent )
        => ( /\ last'.status = "not_found"
             /\ stateFile' = stateFile
             /\ backupFiles' = backupFiles ) ]_vars

\* A failed restore of a record in the catalog whose file is not on disk.
C5_Witness ==
    /\ last.op = "restore"
    /\ last.status = "not_found"
    /\ last.cause = "no_file"
    /\ \E i \in DOMAIN PersistedCatalog :
          PersistedCatalog[i].id = last.id
          /\ backupFiles[PersistedCatalog[i].file_path] = Absent

(***************************************************************************)
(* Properties of save.                                                     *)
(***************************************************************************)
Saved == last.op = "save"

\* The snapshot record save_state creates at the time of the last request.
SavedRecord ==
    [id |-> BackupId(last.now), created_at_iso |-> IsoFormat(last.now),
     reason |-> "manual_save", file_path |-> BackupPath(last.now)]

\* C6 as stated: after every save(D, create_backup=true), whatever D and
\* whatever the store held, list_snapshots() has exactly one more record
\* than it had immediately before the save.
C6_SaveAddsOneToStoredCatalog ==
    Saved => Len(PersistedCatalog) = Len(last.before.backups) + 1

\* C6 as amended: after every save(D, create_backup=true), list_snapshots()
\* is the catalog D was submitted with followed by the new record, one
\* record more than D's catalog (not than the stored catalog), unless D's
\* catalog already holds an identical record, and then it is D's catalog.
C6_SaveAddsOneToSubmittedCatalog ==
    Saved =>
        IF SavedRecord \in Range(last.arg.backups)
        THEN PersistedCatalog = last.arg.backups
        ELSE /\ PersistedCatalog = last.arg.backups \o <<SavedRecord>>
             /\ Len(PersistedCatalog) = Len(last.arg.backups) + 1

\* A save of a document whose catalog is shorter than the stored one.
C6_Witness ==
    /\ Saved
    /\ Len(last.arg.backups) < Len(last.before.backups)
    /\ Len(PersistedCatalog) = Len(last.arg.backups) + 1

\* C7: after save(D, create_backup=true) returns backup id b, the catalog
\* holds a record with id b, and the file each such record references
\* holds a document equal to D in every field but the embedded catalog.
C7_SnapshotHoldsSavedDocument ==
    Saved =>
        /\ \E i \in DOMAIN PersistedCatalog : PersistedCatalog[i].id = last.backup_id
        /\ \A i \in DOMAIN PersistedCatalog :
              PersistedCatalog[i].id = last.backup_id =>
                  LET f == backupFiles[PersistedCatalog[i].file_path]
                  IN  /\ f.kind = "json"
                      /\ WithoutCatalog(f.doc) = WithoutCatalog(last.arg)

\* A save that replaced the content of a snapshot file of the same second:
\* two records carry the returned id, and the document differs from the
\* stored one.
C7_Witness ==
    /\ Saved
    /\ WithoutCatalog(last.arg) # WithoutCatalog(last.before)
    /\ \E i, j \in DOMAIN PersistedCatalog :
          /\ i < j
          /\ PersistedCatalog[i].id = last.backup_id
          /\ PersistedCatalog[j].id = last.backup_id

\* C8 as stated: the snapshot file a save request creates holds the
\* document that was stored before the request, not the submitted one.
C8_SnapshotHoldsPreSaveDocument ==
    Saved =>
        WithoutCatalog(backupFiles[BackupPath(last.now)].doc) = WithoutCatalog(last.before)

\* C8 as amended: the snapshot file a save request creates holds the
\* document submitted in the request body, with the catalog the request
\* leaves in it: the very document that the request stores as the current
\* one, not the document stored before the request.
C8_SnapshotHoldsSubmittedDocument ==
    Saved =>
        /\ backupFiles[BackupPath(last.now)] = stateFile
        /\ stateFile.kind = "json"
        /\ Business(stateFile.doc) = Business(last.arg)
        /\ WithoutCatalog(stateFile.doc) = WithoutCatalog(last.arg)

\* A save of a document whose business fields differ from the stored ones.
C8_Witness ==
    /\ Saved
    /\ Business(last.arg) # Business(last.before)
    /\ last.before.backups # <<>>

\* C9 as stated: over any sequence of saves and restores the persisted
\* catalog only grows at its end.
C9_CatalogAppendOnly ==
    [][IsPrefix(PersistedCatalog, PersistedCatalog')]_vars

\* C9 as amended: the persisted catalog only grows at its end over every
\* restore, and over every save whose submitted catalog begins with the
\* persisted catalog; a save submitting any other catalog replaces it.
C9_CatalogAppendOnlyUnderExtendingSaves ==
    [][ (last'.op = "save" => IsPrefix(PersistedCatalog, last'.arg.backups))
            => IsPrefix(PersistedCatalog, PersistedCatalog') ]_vars

\* A restore that extended a catalog of two records, made by a save that
\* had extended the catalog it loaded.
C9_Witness ==
    /\ RestoreSucceeded
    /\ Len(last.current.backups) >= 2
    /\ Len(PersistedCatalog) = Len(last.current.backups) + 1
    /\ loaded # <<>>
    /\ IsPrefix(loaded, PersistedCatalog)

(***************************************************************************)
(* Properties of load.                                                     *)
(***************************************************************************)
\* The default document: current schema version, every collection and the
\* catalog empty, default settings.
IsDefaultDocument(d) ==
    /\ d.schema_version = SCHEMA_VERSION
    /\ d.projects = {}
    /\ d.tasks = {}
    /\ d.backups = <<>>
    /\ d.app = "system"

\* C10: load() returns the default document when the document file is
\* absent or does not load, the stored document otherwise, and never
\* changes the document file.
C10_LoadFallsBackToDefault ==
    [][ last'.op = "load" =>
          /\ stateFile' = stateFile
          /\ IF stateFile.kind = "json"
             THEN last'.result = stateFile.doc
             ELSE IsDefaultDocument(last'.result) ]_vars

\* A load of a document file that does not parse, answered with a document.
C10_Witness ==
    /\ last.op = "load"
    /\ stateFile = Corrupt
    /\ IsDefaultDocument(last.result)


(***************************************************************************)
(* Round trip of save and load.                                            *)
(***************************************************************************)
\* C11: whatever document D is saved and whatever the store held, load()
\* after save(D) returns D in every field but the catalog, whose records
\* are D's followed at most by the record this save created; nothing of
\* the store's earlier content is left in it.
C11_LoadAfterSaveReturnsSaved ==
    Saved =>
        LET got == LoadStateFrom(stateFile)
        IN  /\ got.schema_version = last.arg.schema_version
            /\ got.app = last.arg.app
            /\ got.ui_state = last.arg.ui_state
            /\ got.projects = last.arg.projects
            /\ got.tasks = last.arg.tasks
            /\ IsPrefix(last.arg.backups, got.backups)
            /\ \A i \in DOMAIN got.backups :
                  i > Len(last.arg.backups) =>
                      /\ i = Len(last.arg.backups) + 1
                      /\ got.backups[i] = SavedRecord

\* A save of a document with tasks and an empty catalog over a store that
\* held another document and a catalog of its own.
C11_Witness ==
    /\ Saved
    /\ last.arg.tasks # {}
    /\ last.before.tasks = {}
    /\ last.before.backups # <<>>
    /\ last.arg.backups = <<>>
    /\ LoadState.backups = <<SavedRecord>>


(***************************************************************************)
(* Properties of snapshot creation.                                        *)
(***************************************************************************)
\* The last request created a snapshot: a save, or a successful restore
\* with its safety snapshot.
SnapshotCreated == Saved \/ RestoreSucceeded

\* The document that snapshot creation was given, with the catalog it had
\* in memory when _create_backup returned, which the request then persisted.
SnapshotDocument ==
    [(IF Saved THEN last.arg ELSE last.current) EXCEPT !.backups = PersistedCatalog]

\* C14: when a snapshot is created in the second of an earlier snapshot
\* creation, the records of the two carry the same id and the same file
\* path, and the one file holds the second document: the content the first
\* creation wrote, when it differs, is no longer there.
C14_SameSecondOverwrites ==
    SnapshotCreated =>
        \A t1 \in Times :
            ( /\ snapAt[t1] # {}
              /\ t1 # last.now
              /\ t1 \div TicksPerSec = last.now \div TicksPerSec )
            => /\ \A i, j \in DOMAIN PersistedCatalog :
                     ( /\ PersistedCatalog[i].created_at_iso = t1
                       /\ PersistedCatalog[j].created_at_iso = last.now )
                     => /\ PersistedCatalog[i].id = PersistedCatalog[j].id
                        /\ PersistedCatalog[i].file_path = PersistedCatalog[j].file_path
                        /\ backupFiles[PersistedCatalog[i].file_path].doc = SnapshotDocument
               /\ BackupId(t1) = BackupId(last.now)
               /\ BackupPath(t1) = BackupPath(last.now)
               /\ backupFiles[BackupPath(t1)] = JsonDump(SnapshotDocument)
               /\ snapAt[t1] # {Business(SnapshotDocument)}
                     => snapAt[t1] # {Business(backupFiles[BackupPath(t1)].doc)}

\* A save in the second of an earlier save of another document, both
\* records in the catalog.
C14_Witness ==
    /\ Saved
    /\ \E t1 \in Times :
          /\ t1 # last.now
          /\ t1 \div TicksPerSec = last.now \div TicksPerSec
          /\ snapAt[t1] # {}
          /\ snapAt[t1] # {Business(last.arg)}
          /\ \E i, j \in DOMAIN PersistedCatalog :
                /\ PersistedCatalog[i].created_at_iso = t1
                /\ PersistedCatalog[j].created_at_iso = last.now


\* C16: the snapshot file a snapshot creation writes holds its own catalog
\* entry: the file's embedded catalog contains the record created for the
\* timestamp and is the catalog the in-memory document has when
\* _create_backup returns, whether the record was appended by this call or
\* an identical one was there before.
C16_SnapshotHoldsOwnRecord ==
    SnapshotCreated =>
        LET f == backupFiles[SavedRecord.file_path]
        IN  /\ f.kind = "json"
            /\ \E i \in DOMAIN f.doc.backups : f.doc.backups[i] = SavedRecord
            /\ f.doc.backups = PersistedCatalog

\* A save of a document whose catalog of two or more records already held
\* the record of its timestamp.
C16_Witness ==
    /\ Saved
    /\ SavedRecord \in Range(last.arg.backups)
    /\ Len(last.arg.backups) >= 2
    /\ backupFiles[SavedRecord.file_path].doc.backups = last.arg.backups


(***************************************************************************)
(* Undoing a restore.                                                      *)
(***************************************************************************)
\* C19: when restore(b) succeeded on the current document C, the last
\* record of the resulting catalog is the safety record, its file holds the
\* business fields of C, and a restore of the safety record's id that
\* follows succeeds and makes the business fields of the current document
\* those of C again.
C19_RestoreUndoneBySafetySnapshot ==
    [][ ( /\ RestoreSucceeded
          /\ last'.op = "restore"
          /\ last'.id = SavedRecord.id )
        => ( /\ PersistedCatalog # <<>>
             /\ PersistedCatalog[Len(PersistedCatalog)] = SavedRecord
             /\ backupFiles[SavedRecord.file_path].kind = "json"
             /\ Business(backupFiles[SavedRecord.file_path].doc) = Business(last.current)
             /\ last'.status = "ok"
             /\ Business(LoadStateFrom(stateFile')) = Business(last.current) ) ]_vars


(***************************************************************************)
(* Catalog and files.  The store starts empty, and every save submits the  *)
(* catalog of the document the client last loaded; no file is removed.     *)
(***************************************************************************)
InitEmpty == Init /\ stateFile = Absent

\* PUT /api/state with a body that carries the catalog last loaded.
PutLoadedState ==
    \E b \in BizInputs, t \in Times : SaveState(Document(b, loaded), t)

\* POST restore on a store whose catalog records all have their files: the
\* lookup fails or the restore goes through.
RestoreBackupOnDisk ==
    \E id \in RestoreIds :
        \/ RestoreUnknownId(id)
        \/ \E t \in Times : RestoreFound(id, t)

NextLoaded ==
    \/ GetState
    \/ GetBackups
    \/ PutLoadedState
    \/ RestoreBackupOnDisk

SpecLoaded == InitEmpty /\ [][NextLoaded]_vars

\* The server accepts one request more than in Spec.
InitLonger == InitStore /\ stateFile = Absent /\ requests = MaxRequests + 1

SpecLonger == InitLonger /\ [][Next]_vars

\* C18: from an empty store, after saves with backup that each submit the
\* catalog last loaded from the store, and restores, every record of the
\* persisted catalog references a snapshot file that is on disk (so that no
\* restore of an id of the catalog fails for a missing file).
C18_CatalogFilesExist ==
    \A i \in DOMAIN PersistedCatalog :
        /\ PersistedCatalog[i].file_path \in DOMAIN backupFiles
        /\ backupFiles[PersistedCatalog[i].file_path].kind # "absent"

\* A catalog over two files, reached by a save of a catalog loaded before an
\* earlier save or restore, whose record the save then left out.
C18_Witness ==
    /\ Saved
    /\ Len(PersistedCatalog) >= 2
    /\ \A s \in Seconds : backupFiles[s].kind = "json"
    /\ last.before.backups # <<>>
    /\ ~IsPrefix(last.before.backups, PersistedCatalog)






(***************************************************************************)
(* Overlapping requests.  Two workers serve requests on the one data       *)
(* directory, and a handler runs as the steps of its code: a step is one   *)
(* access to a file (a read of the whole file, the open of a file for      *)
(* writing, the write of its text) with the computation that precedes it;  *)
(* the steps of the two workers interleave in any order.                   *)
(***************************************************************************)
\* The length in bytes of json.dump(state_dict, f, ensure_ascii=False,
\* indent=2): of the default document, of what a project and a task with
\* their optional fields at the defaults and dates of 19 characters add, of
\* the theme, of a catalog record
\* without the fraction of its created_at_iso, of that fraction, and of the
\* line breaks a list takes once it has an element.
EmptyDumpLen == 338
ProjectLen == 362
TaskLen == 488
RecordLen == 187
FractionLen == 7
ListFrameLen == 2

\* len("system") and len("dark")
ThemeLen(app) == IF app = "dark" THEN 4 ELSE 6

\* timestamp.isoformat() leaves the fraction out when the microsecond is 0.
HasFraction(created) == created % TicksPerSec # 0

RECURSIVE RecordsLen(_)
RecordsLen(cat) ==
    IF cat = <<>> THEN 0
    ELSE RecordLen + (IF HasFraction(Head(cat).created_at_iso) THEN FractionLen ELSE 0)
         + RecordsLen(Tail(cat))

DumpLen(d) ==
    EmptyDumpLen - ThemeLen("system") + ThemeLen(d.app)
    + ProjectLen * Cardinality(d.projects)
    + TaskLen * Cardinality(d.tasks)
    + (IF d.backups = <<>> THEN 0 ELSE ListFrameLen + RecordsLen(d.backups))

\* The size of the buffer of a file opened with open(path, "w"): text
\* shorter than it reaches the file in one write, when the file is closed.
BufferSize == 8192

\* `open(path, "w")`: the file is there and empty.
Truncated == [kind |-> "partial", len |-> 0]

\* The length of a file in bytes.
FileLen(f) ==
    IF f.kind = "json" THEN DumpLen(f.doc)
    ELSE IF f.kind = "partial" THEN f.len
    ELSE 0

\* The file after the dump of d is written at offset 0 and the file closed:
\* the dump when it covers what the file held, and otherwise the dump
\* followed by the rest of what the file held, which json.load rejects.
FileAfterWrite(f, d) ==
    IF DumpLen(d) >= FileLen(f) THEN JsonDump(d)
    ELSE [kind |-> "partial", len |-> FileLen(f)]

\* The workers that hold the document file open for writing.
Writers == {q \in Procs : procs[q].pc = "write"}

\* Variant: _create_backup goes through save_state and so writes the
\* document file as well.
StateFileWrittenByCreateBackup(file, state, t) ==
    JsonDump(StateAfterBackup(state, t))

\* The document file across _create_backup(state, t): not touched.
StateFileAfterCreateBackup(file, state, t) == file

\* GET /api/state: load_state reads the document file.  writing tells, for
\* every worker that has the file open for writing, the document a load
\* returned before the open and the document being written.
LoadStep(p) ==
    /\ procs[p] = Idle
    /\ loaded' = LoadState.backups
    /\ last' = [op |-> "load", result |-> LoadState,
                writing |-> {[prior |-> procs[q].prior, new |-> procs[q].state] :
                                q \in Writers}]
    /\ UNCHANGED <<stateFile, backupFiles, snapAt, procs, requests>>

\* PUT /api/state: save_state from `now = datetime.now()` to the open of the
\* snapshot file in _create_backup.
SaveSnapshot(p) ==
    /\ procs[p] = Idle
    /\ Accept
    /\ \E b \in BizInputs, t \in Times :
          LET state == Document(b, loaded)
          IN  /\ Now(t)
              /\ DumpLen(StateAfterBackup(state, t)) < BufferSize
              /\ backupFiles' = [backupFiles EXCEPT ![BackupPath(t)] = Truncated]
              /\ stateFile' = StateFileAfterCreateBackup(stateFile, state, t)
              /\ procs' = [procs EXCEPT ![p] =
                              [op |-> "save", pc |-> "backup_write", now |-> t,
                               state |-> StateAfterBackup(state, t)]]
    /\ UNCHANGED <<loaded, snapAt, last>>

\* restore_backup up to the checks that precede the safety snapshot: the
\* load, the lookup and the test that the file exists.
RestoreLookup(p) ==
    /\ procs[p] = Idle
    /\ requests > 0
    /\ \E id \in RestoreIds :
          LET current_state == LoadState
              cat           == current_state.backups
              i             == FindBackup(cat, id)
              found         == i # 0 /\ backupFiles[cat[i].file_path] # Absent
          IN  /\ procs' = [procs EXCEPT ![p] =
                              IF found
                              THEN [op |-> "restore", pc |-> "snapshot", id |-> id,
                                    backup_info |-> cat[i],
                                    current_state |-> current_state]
                              ELSE Idle]
              /\ last' = IF found THEN last
                         ELSE [op |-> "restore", id |-> id, status |-> "not_found",
                               cause |-> IF i = 0 THEN "no_record" ELSE "no_file"]
              /\ requests' = IF found THEN requests - 1 ELSE requests
    /\ UNCHANGED <<stateFile, backupFiles, loaded, snapAt>>

\* `now = datetime.now()` and _create_backup(current_state, now) up to the
\* open of the snapshot file.
RestoreSnapshot(p) ==
    /\ procs[p].pc = "snapshot"
    /\ \E t \in Times :
          LET current_state == procs[p].current_state
          IN  /\ Now(t)
              /\ backupFiles' = [backupFiles EXCEPT ![BackupPath(t)] = Truncated]
              /\ stateFile' = StateFileAfterCreateBackup(stateFile, current_state, t)
              /\ procs' = [procs EXCEPT ![p] =
                              [op |-> "restore", pc |-> "backup_write",
                               id |-> procs[p].id, now |-> t,
                               backup_info |-> procs[p].backup_info,
                               state |-> StateAfterBackup(current_state, t)]]
    /\ UNCHANGED <<loaded, snapAt, last, requests>>

\* `json.dump(state_dict, f, ...)` of _create_backup and the close of the
\* snapshot file; a save goes on to its open of the document file, a
\* restore to the read of its target.
BackupWrite(p) ==
    /\ procs[p].pc = "backup_write"
    /\ backupFiles' = [backupFiles EXCEPT ![BackupPath(procs[p].now)] =
                          FileAfterWrite(@, procs[p].state)]
    /\ procs' = [procs EXCEPT ![p].pc =
                    IF procs[p].op = "save" THEN "open" ELSE "read"]
    /\ UNCHANGED <<stateFile, loaded, snapAt, last, requests>>

\* Variant: the document read from the target file is written to the
\* document file at once, before its catalog is replaced.
RestoreReadWritesThrough(p) ==
    /\ procs[p].pc = "read"
    /\ Loads(backupFiles[procs[p].backup_info.file_path])
    /\ stateFile' = backupFiles[procs[p].backup_info.file_path]
    /\ procs' = [procs EXCEPT ![p] =
                    [op |-> "restore", pc |-> "reconcile", id |-> procs[p].id,
                     current_state |-> procs[p].state,
                     restored_state |->
                         ModelValidate(backupFiles[procs[p].backup_info.file_path])]]
    /\ UNCHANGED <<backupFiles, loaded, snapAt, last, requests>>

\* `backup_data = json.load(f)` and `AppState.model_validate(backup_data)`:
\* the target file is read; text that does not load raises a ValueError,
\* which the handler answers with HTTP 404.
RestoreRead(p) ==
    /\ procs[p].pc = "read"
    /\ LET f == backupFiles[procs[p].backup_info.file_path]
       IN  /\ procs' = [procs EXCEPT ![p] =
                           IF Loads(f)
                           THEN [op |-> "restore", pc |-> "reconcile",
                                 id |-> procs[p].id,
                                 current_state |-> procs[p].state,
                                 restored_state |-> ModelValidate(f)]
                           ELSE Idle]
           /\ last' = IF Loads(f) THEN last
                      ELSE [op |-> "restore", id |-> procs[p].id,
                            status |-> "not_found", cause |-> "unreadable"]
    /\ UNCHANGED <<stateFile, backupFiles, loaded, snapAt, requests>>

\* `restored_state.backups = current_state.backups`, and the call of
\* save_state(restored_state, create_backup=False) up to the open.
RestoreReconcile(p) ==
    /\ procs[p].pc = "reconcile"
    /\ procs' = [procs EXCEPT ![p] =
                    [op |-> "restore", pc |-> "open", id |-> procs[p].id,
                     state |-> [procs[p].restored_state EXCEPT
                                   !.backups = procs[p].current_state.backups]]]
    /\ UNCHANGED <<stateFile, backupFiles, loaded, snapAt, last, requests>>

\* Whether two requests are both saves.
BothSaves(p, q) == procs[p].op = "save" /\ procs[q].op = "save"

\* `with open(self.state_file, "w", ...) as f:` of save_state, for a save and
\* for the last step of a restore alike.  prior is the document a load
\* returned just before the open; overlapped tells that another save had the
\* file open at some time while this one had.
OpenStateFile(p) ==
    /\ procs[p].pc = "open"
    /\ stateFile' = Truncated
    /\ procs' = [q \in Procs |->
                    IF q = p
                    THEN [op |-> procs[p].op, pc |-> "write",
                          state |-> procs[p].state,
                          prior |-> LoadState,
                          overlapped |-> \E w \in Writers : BothSaves(p, w)]
                    ELSE IF q \in Writers /\ BothSaves(p, q)
                    THEN [procs[q] EXCEPT !.overlapped = TRUE]
                    ELSE procs[q]]
    /\ UNCHANGED <<backupFiles, loaded, snapAt, last, requests>>

\* The response of the request whose write of the document file is over.
Completed(r) ==
    IF r.op = "save"
    THEN [op |-> "save", written |-> r.state, overlapped |-> r.overlapped]
    ELSE [op |-> "restore", status |-> "ok", result |-> r.state]

\* `json.dump(state_dict, f, ...)` of save_state and the close of the
\* document file: the text is written and the request answered.
WriteStateFile(p) ==
    /\ procs[p].pc = "write"
    /\ stateFile' = FileAfterWrite(stateFile, procs[p].state)
    /\ procs' = [procs EXCEPT ![p] = Idle]
    /\ last' = Completed(procs[p])
    /\ UNCHANGED <<backupFiles, loaded, snapAt, requests>>

\* The worker is killed in the middle of a restore.
InterruptRestore(p) ==
    /\ procs[p].op = "restore"
    /\ procs' = [procs EXCEPT ![p] = Idle]
    /\ last' = [op |-> "restore", status |-> "interrupted", at |-> procs[p].pc]
    /\ UNCHANGED <<stateFile, backupFiles, loaded, snapAt, requests>>

NextSteps ==
    \E p \in Procs :
        \/ LoadStep(p)
        \/ SaveSnapshot(p)
        \/ RestoreLookup(p)
        \/ RestoreSnapshot(p)
        \/ BackupWrite(p)
        \/ RestoreRead(p)
        \/ RestoreReconcile(p)
        \/ OpenStateFile(p)
        \/ WriteStateFile(p)
        \/ InterruptRestore(p)

InitSteps == InitStore /\ stateFile = Absent /\ requests = MaxOverlap

SpecSteps == InitSteps /\ [][NextSteps]_vars

(***************************************************************************)
(* Properties of overlapping requests.                                     *)
(***************************************************************************)
\* C12: a load that runs while a write of the document file by save_state
\* is in progress returns the document in full that a load returned just
\* before that write opened the file, or the document in full that is being
\* written, and no third value such as the default document.
C12_LoadSeesPriorOrNew ==
    (last.op = "load" /\ last.writing # {})
        => \E w \in last.writing : last.result \in {w.prior, w.new}

\* A load that found a save between its open of the document file and its
\* write, after an earlier save had put a document there.
C12_Witness ==
    /\ last.op = "load"
    /\ \E w \in last.writing : w.prior # DefaultAppState

\* No request is in flight.
AllIdle == \A p \in Procs : procs[p] = Idle

\* C13: when a save that had the document file open while another save had
\* it open is the last request to complete and nothing is in flight, the
\* document file holds, in full, the document that save wrote.
C13_LastWriteWins ==
    (AllIdle /\ last.op = "save" /\ last.overlapped)
        => stateFile = JsonDump(last.written)

\* Two saves that overlapped have both completed.
C13_Witness == AllIdle /\ last.op = "save" /\ last.overlapped


\* The order of the steps of restore_backup, as the position a step leaves
\* and the one it reaches: lookup, safety snapshot (the open of its file and
\* the write), read of the target file, replacement of the catalog, then the
\* open and the write of save_state.
RestoreStepOrder ==
    { <<"idle", "snapshot">>, <<"snapshot", "backup_write">>,
      <<"backup_write", "read">>, <<"read", "reconcile">>,
      <<"reconcile", "open">>, <<"open", "write">>, <<"write", "idle">> }

\* C15: every step of a restore follows the order lookup, safety snapshot,
\* load of the target file, catalog reconciliation, persist; no step before
\* the persist step changes the document file, and neither does the
\* interruption of the restore nor its failure to load the target, so that
\* a restore that ends before its persist step has not changed the document
\* file; the restore that ends with the write of its persist step is the
\* one that succeeds.
C15_RestoreStepsInOrder ==
    [][ \A p \in Procs :
          ( /\ procs'[p] # procs[p]
            /\ "restore" \in {procs[p].op, procs'[p].op} )
          => /\ procs[p].pc \notin {"open", "write"} => stateFile' = stateFile
             /\ \/ /\ procs'[p] = Idle
                   /\ last'.op = "restore"
                   /\ last'.status = "interrupted"
                   /\ last'.at = procs[p].pc
                   /\ stateFile' = stateFile
                \/ /\ procs'[p] = Idle
                   /\ procs[p].pc = "read"
                   /\ last'.op = "restore"
                   /\ last'.status = "not_found"
                \/ /\ <<procs[p].pc, procs'[p].pc>> \in RestoreStepOrder
                   /\ procs'[p] = Idle =>
                         /\ last'.op = "restore"
                         /\ last'.status = "ok"
                         /\ last'.result = procs[p].state ]_vars

\* A restore was interrupted after its safety snapshot and the load of the
\* target file, with a saved document in the document file.
C15_Witness ==
    /\ last.op = "restore"
    /\ last.status = "interrupted"
    /\ last.at = "reconcile"
    /\ stateFile.kind = "json"

\* C17: the steps that run _create_backup, in a save and in a restore (the
\* open of the snapshot file and the write of the dump), leave the document
\* file as it is and leave every snapshot file but the one named after the
\* second of the timestamp as it is; in a restore the document in memory
\* changes in its catalog only.
C17_CreateBackupFrame ==
    [][ \A p \in Procs :
          ( /\ procs'[p] # procs[p]
            /\ "backup_write" \in {procs[p].pc, procs'[p].pc} )
          => LET now == IF procs[p].pc = "backup_write" THEN procs[p].now
                        ELSE procs'[p].now
             IN  /\ stateFile' = stateFile
                 /\ \A s \in Seconds \ {BackupPath(now)} :
                        backupFiles'[s] = backupFiles[s]
                 /\ procs[p].pc = "snapshot" =>
                        WithoutCatalog(procs'[p].state)
                            = WithoutCatalog(procs[p].current_state)
                 /\ (procs[p].pc = "backup_write" /\ procs'[p] # Idle) =>
                        procs'[p].state = procs[p].state ]_vars

\* A restore has written its safety snapshot while the document file holds a
\* document and a snapshot file of another second is on disk.
C17_Witness ==
    \E p \in Procs :
        /\ procs[p].pc = "read"
        /\ stateFile.kind = "json"
        /\ backupFiles[BackupPath(procs[p].now)].kind = "json"
        /\ \E s \in Seconds \ {BackupPath(procs[p].now)} : backupFiles[s].kind = "json"

====
